---------------------------- MODULE Spec2Model ----------------------------
(***************************************************************************)
(* Model of the MCP tool test harness (generate_and_test_mcp_calls.py and  *)
(* the streaming consumers in main() and tool_dashboard.py).               *)
(*                                                                         *)
(* JSON values are tagged records; every tag keeps its payload in a field  *)
(* of its own, so values of different JSON types are always comparable.    *)
(* A Python string is a sequence of characters.  A few long literals are   *)
(* written as one symbol; none of them contains the letter d, so the text  *)
(* "data:" can only occur where it is spelled out character by character.  *)
(***************************************************************************)
EXTENDS Integers, Sequences, FiniteSets, TLC

VARIABLES
    clsIn, clsOut,                 \* classify_response_status: argument, return value
    sseIn, sseOut,                 \* call_mcp on an event stream: lines, return value
    cacheFiles, cacheLog, cacheRet, \* param_cache directory, saves done, last load
    catalog, consumer, search_query, \* tools_restored.json, who iterates, dashboard filter
    files,                         \* param_cache directory during a test run
    genPc, api_tools, idx, gpt_output, \* the generator run_all_tool_tests_streaming
    conPc, result, received,       \* the consumer's for loop
    yielded, calls, inFlight,      \* records yielded, invocations made, open requests
    printed, results, rendered     \* main's status lines, dashboard session state

clsVars   == <<clsIn, clsOut>>
sseVars   == <<sseIn, sseOut>>
cacheVars == <<cacheFiles, cacheLog, cacheRet>>
runVars   == <<catalog, consumer, search_query, files, genPc, api_tools, idx,
               gpt_output, conPc, result, received, yielded, calls, inFlight,
               printed, results, rendered>>
vars      == <<clsVars, sseVars, cacheVars, runVars>>

(***************************************************************************)
(* Bounds of the model.                                                    *)
(***************************************************************************)
MaxTools == 2      \* entries in the catalog
MaxItems == 2      \* elements of a result's content list
MaxLines == 2      \* lines of an event stream
MaxOps   == 3      \* cache operations in one cache history

(***************************************************************************)
(* JSON values and Python objects.                                         *)
(***************************************************************************)
JNull      == [t |-> "null"]
JBool(v)   == [t |-> "bool", b |-> v]
JNum(v)    == [t |-> "num", n |-> v]
JStr(v)    == [t |-> "str", s |-> v]
JList(v)   == [t |-> "list", l |-> v]
JDict(v)   == [t |-> "dict", d |-> v]
Exc(v)     == [t |-> "exc", e |-> v]       \* a raised exception
EmptyMap   == [k \in {} |-> JNull]
Truthy(x)  ==
    CASE x.t = "null" -> FALSE
      [] x.t = "bool" -> x.b
      [] x.t = "num"  -> x.n # 0
      [] x.t = "str"  -> Len(x.s) > 0
      [] x.t = "list" -> Len(x.l) > 0
      [] x.t = "dict" -> DOMAIN x.d # {}
\* dict.get(key, default)
Get(x, key, default) == IF key \in DOMAIN x.d THEN x.d[key] ELSE default

(***************************************************************************)
(* str methods, character by character.                                    *)
(***************************************************************************)
Upper == <<"A", "B", "C", "D", "E", "F", "G", "H", "I", "J", "K", "L", "M",
           "N", "O", "P", "Q", "R", "S", "T", "U", "V", "W", "X", "Y", "Z">>
Lowercase == <<"a", "b", "c", "d", "e", "f", "g", "h", "i", "j", "k", "l", "m",
               "n", "o", "p", "q", "r", "s", "t", "u", "v", "w", "x", "y", "z">>
LowerChar(c) ==
    IF \E k \in 1..26 : Upper[k] = c
    THEN Lowercase[CHOOSE k \in 1..26 : Upper[k] = c] ELSE c
Lower(s) == [i \in 1..Len(s) |-> LowerChar(s[i])]
RECURSIVE LStrip(_)
LStrip(s) == IF Len(s) > 0 /\ s[1] = " " THEN LStrip(Tail(s)) ELSE s
RECURSIVE RStrip(_)
RStrip(s) ==
    IF Len(s) > 0 /\ s[Len(s)] = " " THEN RStrip(SubSeq(s, 1, Len(s) - 1)) ELSE s
Strip(s) == RStrip(LStrip(s))
StartsWith(s, p) == Len(s) >= Len(p) /\ SubSeq(s, 1, Len(p)) = p
\* str.replace(old, new): every non-overlapping occurrence, left to right
RECURSIVE Replace(_, _, _)
Replace(s, old, new) ==
    IF Len(s) = 0 THEN s
    ELSE IF StartsWith(s, old)
         THEN new \o Replace(SubSeq(s, Len(old) + 1, Len(s)), old, new)
         ELSE <<s[1]>> \o Replace(Tail(s), old, new)
\* sub in s, for two strings
Contains(s, sub) ==
    \E i \in 1..(Len(s) + 1) :
        i + Len(sub) - 1 <= Len(s) /\ SubSeq(s, i, i + Len(sub) - 1) = sub

(***************************************************************************)
(* json.loads on the documents of the model.  Whitespace between the       *)
(* symbols of a document is insignificant; every other text is rejected.   *)
(***************************************************************************)
OVERRIDE_TEXT == "Tools should wrap non-dict values based on their output_schema"
SymResult   == "{\"result\":"
SymFalse    == "{\"isError\":false}"
SymTrue     == "{\"isError\":true,\"content\":[]}"
SymOverride == "{\"isError\":true,\"content\":[{\"text\":\"Tools should wrap ...\"}]}"
SymContent  == "{\"isError\":false,\"content\":\""      \* opens a string literal
SymQuote    == "\"}"                                     \* closes it
SymClose    == "}"
SymArgsA    == "{\"query\":\"aspirin\"}"
SymArgsB    == "{\"limit\":5}"
SymEmpty    == "{}"
SymArgsA2   == "{\n  \"query\": \"aspirin\"\n}"          \* the same, indent=2
SymArgsB2   == "{\n  \"limit\": 5\n}"
PlainChars  == {"d", "a", "t", ":", " ", "x"}             \* need no escaping
ValFalse    == JDict([isError |-> JBool(FALSE)])
ValTrue     == JDict([isError |-> JBool(TRUE), content |-> JList(<<>>)])
ValOverride ==
    JDict([isError |-> JBool(TRUE),
           content |-> JList(<<JDict([text |-> JStr(<<OVERRIDE_TEXT>>)])>>)])
ValContent(text) == JDict([isError |-> JBool(FALSE), content |-> JStr(text)])
ArgsA       == JDict([query |-> JStr(<<"a", "s", "p", "i", "r", "i", "n">>)])
ArgsB       == JDict([limit |-> JNum(5)])
Envelope(r) == JDict([result |-> r])
NoSpaces(s) == SelectSeq(s, LAMBDA c : c # " ")
\* {"result":{"isError":false,"content":"<plain characters>"}}
IsContentDoc(s) ==
    LET opens  == {i \in 1..Len(s) : s[i] = SymContent}
        closes == {i \in 1..Len(s) : s[i] = SymQuote} IN
    /\ Cardinality(opens) = 1 /\ Cardinality(closes) = 1
    /\ LET o == CHOOSE i \in opens : TRUE
           c == CHOOSE i \in closes : TRUE IN
       /\ o < c
       /\ NoSpaces(SubSeq(s, 1, o - 1)) = <<SymResult>>
       /\ NoSpaces(SubSeq(s, c + 1, Len(s))) = <<SymClose>>
       /\ \A k \in (o + 1)..(c - 1) : s[k] \in PlainChars
ContentOfDoc(s) ==
    LET o == CHOOSE i \in 1..Len(s) : s[i] = SymContent
        c == CHOOSE i \in 1..Len(s) : s[i] = SymQuote IN
    SubSeq(s, o + 1, c - 1)
JsonLoads(text) ==
    LET doc == NoSpaces(text) IN
    CASE doc = <<SymResult, SymFalse, SymClose>>    -> Envelope(ValFalse)
      [] doc = <<SymResult, SymTrue, SymClose>>     -> Envelope(ValTrue)
      [] doc = <<SymResult, SymOverride, SymClose>> -> Envelope(ValOverride)
      [] doc = <<SymFalse>>                         -> ValFalse
      [] doc = <<SymTrue>>                          -> ValTrue
      [] doc \in {<<SymArgsA>>, <<SymArgsA2>>}      -> ArgsA
      [] doc \in {<<SymArgsB>>, <<SymArgsB2>>}      -> ArgsB
      [] doc = <<SymEmpty>>                         -> JDict(EmptyMap)
      [] IsContentDoc(text)                         -> Envelope(ValContent(ContentOfDoc(text)))
      [] OTHER                                      -> Exc("JSONDecodeError")
\* json.dump(param_data, f, indent=2) on the argument mappings of the model
JsonDump(param_data) ==
    CASE param_data = ArgsA -> <<SymArgsA2>>
      [] param_data = ArgsB -> <<SymArgsB2>>
      [] OTHER              -> <<SymEmpty>>

(***************************************************************************)
(* Values that stand for "not there": a key a JSON object does not hold,   *)
(* a return value not produced yet.                                        *)
(***************************************************************************)
Absent == [t |-> "absent"]
NotYet == [t |-> "none"]
Put(key, x) == IF x.t = "absent" THEN EmptyMap ELSE (key :> x)
SeqsUpTo(S, k) == UNION {[1..m -> S] : m \in 0..k}

(***************************************************************************)
(* classify_response_status                                                *)
(***************************************************************************)
\* OVERRIDE_TEXT in x: substring of a str, element of a list, key of a dict;
\* TypeError for a value that is not a container
PyInOverride(x) ==
    CASE x.t = "str"  -> Contains(x.s, <<OVERRIDE_TEXT>>)
      [] x.t = "list" -> \E i \in 1..Len(x.l) :
                             x.l[i].t = "str" /\ x.l[i].s = <<OVERRIDE_TEXT>>
      [] x.t = "dict" -> OVERRIDE_TEXT \in DOMAIN x.d
      [] OTHER        -> FALSE
Iterable(x) == x.t \in {"str", "list", "dict"}
\* the any(...) generator of the override test, from element i on:
\* "true", "false", or "exc" when the in-test raises
RECURSIVE AnyOverride(_, _)
AnyOverride(content, i) ==
    IF i > Len(content) THEN "false"
    ELSE LET item == content[i] IN
         IF item.t = "dict" /\ "text" \in DOMAIN item.d
         THEN IF ~Iterable(item.d["text"]) THEN "exc"
              ELSE IF PyInOverride(item.d["text"]) THEN "true"
              ELSE AnyOverride(content, i + 1)
         ELSE AnyOverride(content, i + 1)

classify_no_override(raw_response) ==
    LET parsed == IF raw_response.t = "str" THEN JsonLoads(raw_response.s)
                  ELSE raw_response IN
    IF parsed.t # "dict" THEN "unknown"
    ELSE LET res == Get(parsed, "result", JDict(EmptyMap)) IN
         IF res.t # "dict" THEN "unknown"
         ELSE LET is_error == Get(res, "isError", JNull) IN
              IF is_error.t = "bool" /\ is_error.b THEN "error"
              ELSE IF is_error.t = "bool" /\ ~is_error.b THEN "success"
              ELSE "unknown"

classify_response_status(raw_response) ==
    LET parsed == IF raw_response.t = "str" THEN JsonLoads(raw_response.s)
                  ELSE raw_response IN
    IF parsed.t # "dict" THEN "unknown"          \* json.loads or .get raised
    ELSE LET res == Get(parsed, "result", JDict(EmptyMap)) IN
         IF res.t # "dict" THEN "unknown"        \* result.get raised
         ELSE LET is_error == Get(res, "isError", JNull)
                  content  == Get(res, "content", JStr(<<>>)) IN
              IF is_error.t = "bool" /\ is_error.b
              THEN IF content.t = "list"
                   THEN LET any == AnyOverride(content.l, 1) IN
                        CASE any = "true"  -> "success"
                          [] any = "false" -> "error"
                          [] any = "exc"   -> "unknown"
                   ELSE "error"
              ELSE IF is_error.t = "bool" /\ ~is_error.b THEN "success"
              ELSE "unknown"


(***************************************************************************)
(* call_mcp.  reply is what the endpoint does with the POST:               *)
(*   kind "fault"  requests.post raises (refused, timeout, DNS)            *)
(*   kind "sse"    Content-Type text/event-stream, iter_lines gives lines  *)
(*   kind "cut"    the same, and the stream breaks while it is read        *)
(*   kind "json"   any other Content-Type, the body is body                *)
(***************************************************************************)
DATA == <<"d", "a", "t", "a", ":">>
Reply(kind, lines, body) == [kind |-> kind, lines |-> lines, body |-> body]
TransportFailure(message) == JDict([error |-> JStr(<<message>>)])
DecodeFailure(message, raw) ==
    JDict([error |-> JStr(<<message>>), raw |-> JStr(raw)])
\* the json_part of one line that starts with data:
json_part(line) == Strip(Replace(Strip(line), DATA, <<>>))
\* full_data after the for loop over the first k lines
RECURSIVE full_data(_, _)
full_data(lines, k) ==
    IF k = 0 THEN <<>>
    ELSE IF StartsWith(Strip(lines[k]), DATA)
         THEN full_data(lines, k - 1) \o json_part(lines[k])
         ELSE full_data(lines, k - 1)

call_mcp_raising(tool_name, arguments, reply) ==
    CASE reply.kind \in {"fault", "cut"} -> Exc("RequestException")
      [] reply.kind = "sse" ->
            LET text == full_data(reply.lines, Len(reply.lines)) IN
            IF JsonLoads(text).t = "exc" THEN Exc("JSONDecodeError")
            ELSE JsonLoads(text)
      [] reply.kind = "json" ->
            IF JsonLoads(reply.body).t = "exc" THEN Exc("JSONDecodeError")
            ELSE JsonLoads(reply.body)

call_mcp(tool_name, arguments, reply) ==
    CASE reply.kind \in {"fault", "cut"} -> TransportFailure("str(e)")
      [] reply.kind = "sse" ->
            LET text == full_data(reply.lines, Len(reply.lines)) IN
            IF JsonLoads(text).t = "exc"
            THEN DecodeFailure("Failed to parse streamed JSON", text)
            ELSE JsonLoads(text)
      [] reply.kind = "json" ->
            IF JsonLoads(reply.body).t = "exc"
            THEN DecodeFailure("Failed to parse JSON", reply.body)
            ELSE JsonLoads(reply.body)

(***************************************************************************)
(* The parameter cache: dir maps the path of every file of param_cache to  *)
(* the text it holds.                                                      *)
(***************************************************************************)
get_param_cache_path(tool_name) ==
    Replace(Replace(tool_name, <<"/">>, <<"_">>), <<" ">>, <<"_">>)
        \o <<"_params.json">>
\* the value returned, or the exception raised for a name that is no str
load_cached_params(dir, tool_name) ==
    IF tool_name.t # "str" THEN Exc("AttributeError")
    ELSE IF get_param_cache_path(tool_name.s) \in DOMAIN dir
         THEN JsonLoads(dir[get_param_cache_path(tool_name.s)])
         ELSE JNull
\* the directory after the call (the caller passes a str)
save_cached_params(dir, tool_name, param_data) ==
    [path \in DOMAIN dir \cup {get_param_cache_path(tool_name.s)} |->
        IF path = get_param_cache_path(tool_name.s) THEN JsonDump(param_data)
        ELSE dir[path]]

(***************************************************************************)
(* The catalog loader.                                                     *)
(***************************************************************************)
excluded ==
    {<<"l", "a", "n", "g", "c", "h", "a", "i", "n", "t", "o", "o", "l">>,
     <<"p", "u", "b", "c", "h", "e", "m">>}
is_excluded_category_exact(cat) ==
    IF ~Truthy(cat) THEN FALSE
    ELSE IF cat.t = "str" THEN cat.s \in excluded
    ELSE IF cat.t = "list"
         THEN \E i \in 1..Len(cat.l) : cat.l[i].t = "str" /\ cat.l[i].s \in excluded
    ELSE FALSE
is_excluded_category(cat) ==
    IF ~Truthy(cat) THEN FALSE
    ELSE IF cat.t = "str" THEN Lower(Strip(cat.s)) \in excluded
    ELSE IF cat.t = "list"
         THEN \E i \in 1..Len(cat.l) :
                  cat.l[i].t = "str" /\ Lower(Strip(cat.l[i].s)) \in excluded
    ELSE FALSE
\* x or default
OrElse(x, default) == IF Truthy(x) THEN x ELSE default
Skip == [t |-> "skip"]
\* the body of the loader's for loop on entry t: Skip on continue, the
\* exception it raises, or the entry with _properties and _example set
load_entry(t) ==
    LET tool_type == OrElse(Get(t, "toolType", JNull), JStr(<<>>))
        schema    == OrElse(Get(t, "inputSchema", JNull), JDict(EmptyMap))
        example   == OrElse(Get(t, "exampleInput", JNull), JDict(EmptyMap)) IN
    IF tool_type.t # "str" THEN Exc("AttributeError")
    ELSE IF Lower(Strip(tool_type.s)) # <<"a", "p", "i">> THEN Skip
    ELSE IF is_excluded_category(Get(t, "category", JNull)) THEN Skip
    ELSE IF schema.t # "dict" THEN Exc("AttributeError")
    ELSE JDict(("_properties" :> Get(schema, "properties", JDict(EmptyMap)))
                 @@ ("_example" :> example) @@ t.d)
\* api_tools after the first k entries, as a list, or the exception raised
RECURSIVE load_loop(_, _)
load_loop(tools, k) ==
    IF k = 0 THEN JList(<<>>)
    ELSE LET before == load_loop(tools, k - 1) IN
         IF before.t = "exc" THEN before
         ELSE IF load_entry(tools[k]).t = "exc" THEN load_entry(tools[k])
         ELSE IF load_entry(tools[k]).t = "skip" THEN before
         ELSE JList(Append(before.l, load_entry(tools[k])))
load_tools_from_json(tools) == load_loop(tools, Len(tools))

(***************************************************************************)
(* generate_sample_arguments.  gpt is what the chat completion does:       *)
(* kind "fault" (the call raises) or kind "text" with the message content. *)
(* The value is the pair of what is returned (or raised) and the cache     *)
(* directory afterwards.                                                   *)
(***************************************************************************)
Gpt(kind, text) == [kind |-> kind, text |-> text]
generate_sample_arguments(dir, tool_name, param_properties, gpt) ==
    LET cached == load_cached_params(dir, tool_name) IN
    IF cached.t = "exc" THEN [ret |-> cached, dir |-> dir]
    ELSE IF Truthy(cached) THEN [ret |-> cached, dir |-> dir]
    ELSE IF gpt.kind = "fault" THEN [ret |-> JDict(EmptyMap), dir |-> dir]
    ELSE LET parsed_output == JsonLoads(Strip(gpt.text)) IN
         IF parsed_output.t = "exc" THEN [ret |-> JDict(EmptyMap), dir |-> dir]
         ELSE [ret |-> parsed_output,
               dir |-> save_cached_params(dir, tool_name, parsed_output)]

(***************************************************************************)
(* The responses classify_response_status is applied to.                   *)
(***************************************************************************)
TextVals ==
    {JStr(<<"x", OVERRIDE_TEXT, "y">>), JStr(<<"x">>), JNum(5), JNull,
     JList(<<JStr(<<OVERRIDE_TEXT>>)>>)}
ContentItems ==
    {JStr(<<OVERRIDE_TEXT>>), JDict([note |-> JStr(<<OVERRIDE_TEXT>>)])}
      \cup {JDict([text |-> tv]) : tv \in TextVals}
IsErrorVals ==
    {Absent, JBool(TRUE), JBool(FALSE), JNull, JNum(1), JStr(<<"t", "r", "u", "e">>)}
ContentVals ==
    {Absent, JNull, JStr(<<OVERRIDE_TEXT>>)}
      \cup {JList(items) : items \in SeqsUpTo(ContentItems, MaxItems)}
ResultVals ==
    {Absent, JNull, JList(<<>>)}
      \cup {JDict(Put("isError", ie) @@ Put("content", c)) :
                ie \in IsErrorVals, c \in ContentVals}
ClassifyInputs ==
    {JDict(Put("result", r)) : r \in ResultVals}
      \cup {JDict([error |-> JStr(<<"t", "i", "m", "e", "o", "u", "t">>)]),
            JStr(<<"n", "o", "t", " ", "j", "s", "o", "n">>),
            JStr(<<SymResult, SymFalse, SymClose>>),
            JStr(<<SymResult, " ", SymOverride, SymClose>>),
            JList(<<>>), JNull, JNum(3)}

ClsIdle   == clsIn = NotYet /\ clsOut = "none"
SseIdle   == sseIn = <<>> /\ sseOut = NotYet
CacheIdle == cacheFiles = EmptyMap /\ cacheLog = <<>> /\ cacheRet = NotYet
RunIdle   ==
    /\ catalog = <<>> /\ consumer = "none" /\ search_query = <<>>
    /\ files = EmptyMap /\ genPc = "unstarted" /\ api_tools = <<>> /\ idx = 0
    /\ gpt_output = NotYet /\ conPc = "idle" /\ result = NotYet /\ received = 0
    /\ yielded = <<>> /\ calls = <<>> /\ inFlight = 0
    /\ printed = <<>> /\ results = <<>> /\ rendered = 0

InitClassify == clsIn \in ClassifyInputs /\ clsOut = "none"
                  /\ SseIdle /\ CacheIdle /\ RunIdle
Classify ==
    /\ clsOut = "none"
    /\ clsOut' = classify_response_status(clsIn)
    /\ UNCHANGED <<clsIn, sseVars, cacheVars, runVars>>
NextClassify == Classify
SpecClassify == InitClassify /\ [][NextClassify]_vars

(***************************************************************************)
(* The envelope fields the classification rules speak of.                  *)
(***************************************************************************)
ParsedOf(r)  == IF r.t = "str" THEN JsonLoads(r.s) ELSE r
ResultOf(r)  ==
    IF ParsedOf(r).t = "dict" THEN Get(ParsedOf(r), "result", JDict(EmptyMap))
    ELSE Absent
IsErrorOf(r) ==
    IF ResultOf(r).t = "dict" THEN Get(ResultOf(r), "isError", Absent) ELSE Absent
ContentOf(r) ==
    IF ResultOf(r).t = "dict" THEN Get(ResultOf(r), "content", Absent) ELSE Absent
ExactlyTrue(x)  == x.t = "bool" /\ x.b
ExactlyFalse(x) == x.t = "bool" /\ ~x.b
TextField(item) == item.t = "dict" /\ "text" \in DOMAIN item.d
\* an element that is a mapping with a text field whose string holds the literal
OverrideElement(item) ==
    /\ TextField(item)
    /\ item.d["text"].t = "str"
    /\ Contains(item.d["text"].s, <<OVERRIDE_TEXT>>)
ClaimedStatus(r) ==
    IF ExactlyFalse(IsErrorOf(r)) THEN "success"
    ELSE IF ExactlyTrue(IsErrorOf(r))
         THEN IF ContentOf(r).t = "list"
                   /\ \E i \in 1..Len(ContentOf(r).l) : OverrideElement(ContentOf(r).l[i])
              THEN "success" ELSE "error"
         ELSE "unknown"

\* C2 (as claimed): classify_response_status returns, for every response,
\* success when isError is exactly false; when isError is exactly true, success
\* if content is a sequence with a mapping element whose text field contains
\* the override literal and error otherwise; unknown for every other shape.
C2_AsClaimed == clsOut # "none" => clsOut = ClaimedStatus(clsIn)

\* the elements of a content list that end the scan: a mapping whose text
\* value holds the literal (as a substring, a list element or a key), or
\* whose text value is no container at all (a number, null, a boolean)
EndsScan(item) ==
    TextField(item) /\ (~Iterable(item.d["text"]) \/ PyInOverride(item.d["text"]))
AmendedStatus(r) ==
    IF ExactlyFalse(IsErrorOf(r)) THEN "success"
    ELSE IF ExactlyTrue(IsErrorOf(r))
         THEN LET c    == ContentOf(r)
                  ends == IF c.t = "list"
                          THEN {i \in 1..Len(c.l) : EndsScan(c.l[i])} ELSE {} IN
              IF ends = {} THEN "error"
              ELSE LET first == CHOOSE i \in ends : \A j \in ends : i <= j IN
                   IF Iterable(c.l[first].d["text"]) THEN "success" ELSE "unknown"
         ELSE "unknown"

\* C2 (amended): classify_response_status is total onto {success, error,
\* unknown}; isError exactly false gives success; isError exactly true and
\* content a sequence gives the verdict of the first element, in order, that
\* is a mapping whose text value either holds the literal (success) or is not
\* a container (unknown: the membership test raises and the fault is caught),
\* and error when there is no such element or content is not a sequence;
\* every other shape gives unknown.
C2_Classify ==
    clsOut # "none" =>
        /\ clsOut \in {"success", "error", "unknown"}
        /\ clsOut = AmendedStatus(clsIn)
\* an error flag, a numeric text value first, the override text after it
C2_Witness ==
    /\ clsOut = "unknown"
    /\ ExactlyTrue(IsErrorOf(clsIn))
    /\ ContentOf(clsIn).t = "list"
    /\ Len(ContentOf(clsIn).l) = 2
    /\ TextField(ContentOf(clsIn).l[1]) /\ ContentOf(clsIn).l[1].d["text"].t = "num"
    /\ OverrideElement(ContentOf(clsIn).l[2])

(***************************************************************************)
(* call_mcp on an event stream.                                            *)
(***************************************************************************)
SseLines ==
    { DATA \o <<" ", SymResult>>,                       \* data: {"result":
      DATA \o <<" ", SymFalse, SymClose>>,              \* data: {"isError":false}}
      <<" ", " ">> \o DATA \o <<"x", " ">>,             \* padded on both sides
      <<"x">>,                                          \* a keep-alive line
      <<>>,                                             \* a blank line
      DATA \o <<" ", SymResult, SymContent>> \o DATA \o <<SymQuote, SymClose>>,
      <<"x">> \o DATA \o <<"x">>,                       \* data: not at the start
      DATA,
      DATA \o <<" ", "x", " ", "x">> }
InitSse == sseIn \in SeqsUpTo(SseLines, MaxLines) /\ sseOut = NotYet
             /\ ClsIdle /\ CacheIdle /\ RunIdle
DecodeStream ==
    /\ sseOut.t = "none"
    /\ sseOut' = call_mcp(<<"t">>, ArgsA, Reply("sse", sseIn, <<>>))
    /\ UNCHANGED <<sseIn, clsVars, cacheVars, runVars>>
NextSse == DecodeStream
SpecSse == InitSse /\ [][NextSse]_vars

\* the text the claim describes: of every line that begins with data: once
\* trimmed, what follows that prefix, trimmed; the lines in order
RECURSIVE ClaimedText(_, _)
ClaimedText(lines, k) ==
    IF k = 0 THEN <<>>
    ELSE IF StartsWith(Strip(lines[k]), DATA)
         THEN ClaimedText(lines, k - 1)
                \o Strip(SubSeq(Strip(lines[k]), Len(DATA) + 1, Len(Strip(lines[k]))))
         ELSE ClaimedText(lines, k - 1)
ClaimedDecode(lines) ==
    LET text == ClaimedText(lines, Len(lines)) IN
    IF JsonLoads(text).t = "exc"
    THEN DecodeFailure("Failed to parse streamed JSON", text)
    ELSE JsonLoads(text)

\* C4: for an event-stream response the decoded text is the concatenation, in
\* order, of the lines that begin with data: after trimming, each with only
\* that leading prefix and the surrounding whitespace removed; call_mcp returns
\* that text parsed as JSON or, when it does not parse, a failure record whose
\* raw field is that text.
C4_StreamDecode == sseOut.t # "none" => sseOut = ClaimedDecode(sseIn)
\* the two-line stream of the specification decodes to its envelope
C4_Witness ==
    /\ sseIn = <<DATA \o <<" ", SymResult>>, DATA \o <<" ", SymFalse, SymClose>>>>
    /\ sseOut = Envelope(ValFalse)

(***************************************************************************)
(* The parameter cache under a history of saves and loads.                 *)
(***************************************************************************)
CacheNames == {<<"a", " ", "b">>, <<"a", "_", "b">>, <<"a", "/", "b">>, <<"c">>}
ArgumentSets == {ArgsA, ArgsB, JDict(EmptyMap)}
InitCache == cacheFiles = EmptyMap /\ cacheLog = <<>> /\ cacheRet = NotYet
               /\ ClsIdle /\ SseIdle /\ RunIdle
Save ==
    /\ Len(cacheLog) < MaxOps
    /\ \E name \in CacheNames, a \in ArgumentSets :
          /\ cacheFiles' = save_cached_params(cacheFiles, JStr(name), a)
          /\ cacheLog' = Append(cacheLog, [op |-> "save", name |-> name, data |-> a])
    /\ cacheRet' = NotYet
    /\ UNCHANGED <<clsVars, sseVars, runVars>>
Load ==
    /\ Len(cacheLog) < MaxOps
    /\ \E name \in CacheNames :
          /\ cacheRet' = load_cached_params(cacheFiles, JStr(name))
          /\ cacheLog' = Append(cacheLog, [op |-> "load", name |-> name, data |-> JNull])
    /\ UNCHANGED <<cacheFiles, clsVars, sseVars, runVars>>
NextCache == Save \/ Load
SpecCache == InitCache /\ [][NextCache]_vars

SavesOf(name) ==
    {i \in 1..Len(cacheLog) : cacheLog[i].op = "save" /\ cacheLog[i].name = name}
LastSave(name) == CHOOSE i \in SavesOf(name) : \A j \in SavesOf(name) : j <= i
\* C9: a load for tool X returns the mapping of the latest save for X, whatever
\* was saved for other tool names in between, and returns None (not a fault)
\* when nothing was ever saved for X.
C9_RoundTrip ==
    (Len(cacheLog) > 0 /\ cacheLog[Len(cacheLog)].op = "load") =>
        LET name == cacheLog[Len(cacheLog)].name IN
        IF SavesOf(name) = {} THEN cacheRet = JNull
        ELSE cacheRet = cacheLog[LastSave(name)].data
\* a save directly followed by a load of the same name returns what was saved
C9_Witness ==
    /\ Len(cacheLog) = 2
    /\ cacheLog[1].op = "save" /\ cacheLog[2].op = "load"
    /\ cacheLog[1].name = cacheLog[2].name
    /\ cacheRet = cacheLog[1].data /\ cacheRet = ArgsA

(***************************************************************************)
(* A test run: the generator run_all_tool_tests_streaming and the loop     *)
(* that consumes it (main, or the dashboard's run_tests branch).           *)
(***************************************************************************)
Entry(name, toolType, category, inputSchema, exampleInput) ==
    JDict(Put("name", name) @@ Put("toolType", toolType) @@ Put("category", category)
            @@ Put("inputSchema", inputSchema) @@ Put("exampleInput", exampleInput))
T1 == JStr(<<"t", "1">>)
T2 == JStr(<<"t", "2">>)
Api == JStr(<<"a", "p", "i">>)
Properties == JDict([query |-> JDict([type |-> JStr(<<"s", "t", "r">>)])])
Schema == JDict([properties |-> Properties])
SchemaList == JDict([properties |-> JList(<<JStr(<<"q">>)>>)])   \* properties no mapping
SchemaText == JStr(<<"x">>)                                      \* inputSchema no mapping
Entries ==
    { Entry(T1, Api, Absent, Schema, ArgsA),
      Entry(T1, Api, Absent, Schema, Absent),
      Entry(Absent, Api, Absent, Schema, Absent),
      Entry(Absent, Api, Absent, Schema, ArgsB),
      Entry(T1, Api, Absent, SchemaList, ArgsA),
      Entry(T1, Api, Absent, SchemaText, ArgsA),
      Entry(T2, JStr(<<" ", "A", "P", "I", " ">>), Absent, Schema, ArgsB),
      Entry(T2, JStr(<<"m", "c", "p">>), Absent, Schema, ArgsB),
      Entry(T2, Api, JStr(<<" ", "P", "u", "b", "C", "h", "e", "m", " ">>), Schema, ArgsB),
      Entry(T2, Api, JList(<<JStr(<<"x">>), JStr(<<"L", "a", "n", "g", "c", "h", "a",
                                                   "i", "n", "T", "o", "o", "l">>)>>),
            Schema, ArgsB),
      Entry(T2, Api, JStr(<<"x">>), Schema, ArgsB) }
GptReplies ==
    { Gpt("fault", <<>>), Gpt("text", <<" ", SymArgsA, " ">>),
      Gpt("text", <<SymEmpty>>), Gpt("text", <<"x">>) }
McpReplies ==
    { Reply("fault", <<>>, <<>>),
      Reply("cut", <<DATA \o <<" ", SymResult>>>>, <<>>),
      Reply("sse", <<DATA \o <<" ", SymResult>>, DATA \o <<" ", SymFalse, SymClose>>>>, <<>>),
      Reply("sse", <<DATA \o <<" ", SymResult>>, <<"x">>>>, <<>>),
      Reply("json", <<>>, <<SymResult, SymTrue, SymClose>>),
      Reply("json", <<>>, <<"x">>) }
Pending == Reply("pending", <<>>, <<>>)

InitRun ==
    /\ catalog \in SeqsUpTo(Entries, MaxTools)
    /\ \E who \in {<<"main", <<>>>>, <<"dashboard", <<>>>>, <<"dashboard", <<"T">>>>} :
           consumer = who[1] /\ search_query = who[2]
    /\ files = EmptyMap /\ genPc = "unstarted" /\ api_tools = <<>> /\ idx = 0
    /\ gpt_output = NotYet /\ conPc = "asking" /\ result = NotYet /\ received = 0
    /\ yielded = <<>> /\ calls = <<>> /\ inFlight = 0
    /\ printed = <<>> /\ results = <<>> /\ rendered = 0
    /\ ClsIdle /\ SseIdle /\ CacheIdle

\* an exception leaves the generator and the for loop that drives it
Raise == genPc' = "raised" /\ conPc' = "aborted"
\* yield rec: the generator is suspended and the loop body gets rec
YieldEager(rec) ==
    /\ genPc' = "loop" /\ idx' = idx + 1
    /\ conPc' = "body" /\ result' = rec
    /\ yielded' = Append(yielded, [i |-> idx, rec |-> rec])
Yield(rec) ==
    /\ genPc' = "suspended" /\ idx' = idx
    /\ conPc' = "body" /\ result' = rec
    /\ yielded' = Append(yielded, [i |-> idx, rec |-> rec])
\* the for loop asks for the next element: the generator goes on after its yield
Resume ==
    IF genPc = "suspended" THEN genPc' = "loop" /\ idx' = idx + 1
    ELSE UNCHANGED <<genPc, idx>>
EarlyRecord(name, message) == JDict([name |-> name, error |-> JStr(message)])
FullRecord(tool, input, output, status) ==
    JDict([name        |-> Get(tool, "name", JNull),
           description |-> Get(tool, "description", JStr(<<>>)),
           type        |-> Get(tool, "toolType", JStr(<<>>)),
           parameters  |-> Get(tool, "_properties", JDict(EmptyMap)),
           input       |-> input,
           output      |-> output,
           status      |-> JStr(<<status>>)])

\* the first next(): all_tools = load_tools_from_json()
LoadCatalog ==
    /\ genPc = "unstarted" /\ conPc = "asking"
    /\ LET all_tools == load_tools_from_json(catalog) IN
       IF all_tools.t = "exc" THEN Raise /\ UNCHANGED <<api_tools, idx>>
       ELSE /\ api_tools' = all_tools.l /\ idx' = 1 /\ genPc' = "loop"
            /\ UNCHANGED conPc
    /\ UNCHANGED <<catalog, consumer, search_query, files, gpt_output, result,
                   received, yielded, calls, inFlight, printed, results, rendered>>
    /\ UNCHANGED <<clsVars, sseVars, cacheVars>>

\* mcp_response = call_mcp(name, gpt_output): the request goes out
PostRequest(arguments) ==
    /\ genPc' = "calling" /\ gpt_output' = arguments
    /\ calls' = Append(calls, [i |-> idx, arguments |-> arguments, reply |-> Pending])
    /\ inFlight' = inFlight + 1
    /\ UNCHANGED <<idx, conPc, result, yielded>>

\* one iteration of for tool in all_tools, up to its first yield or to the POST
LoopStep ==
    /\ genPc = "loop"
    /\ IF idx > Len(api_tools)
       THEN /\ genPc' = "exhausted" /\ conPc' = "done"
            /\ UNCHANGED <<files, idx, gpt_output, result, yielded, calls, inFlight>>
       ELSE LET tool       == api_tools[idx]
                name       == Get(tool, "name", JNull)
                properties == Get(tool, "_properties", JDict(EmptyMap))
                example    == Get(tool, "_example", JDict(EmptyMap)) IN
            IF properties.t # "dict"
            THEN /\ Yield(EarlyRecord(name, <<"Invalid parameter properties", " in JSON">>))
                 /\ UNCHANGED <<files, gpt_output, calls, inFlight>>
            ELSE IF example.t = "dict" /\ DOMAIN example.d # {}
            THEN PostRequest(example) /\ UNCHANGED files
            ELSE \E gpt \in GptReplies :
                   LET g == generate_sample_arguments(files, name, properties, gpt) IN
                   IF g.ret.t = "exc"
                   THEN /\ Raise
                        /\ UNCHANGED <<files, idx, gpt_output, result, yielded, calls,
                                       inFlight>>
                   ELSE IF ~Truthy(g.ret)
                   THEN /\ files' = g.dir
                        /\ Yield(EarlyRecord(name, <<"Failed to generate sample input">>))
                        /\ UNCHANGED <<gpt_output, calls, inFlight>>
                   ELSE files' = g.dir /\ PostRequest(g.ret)
    /\ UNCHANGED <<catalog, consumer, search_query, api_tools, received, printed,
                   results, rendered>>
    /\ UNCHANGED <<clsVars, sseVars, cacheVars>>

\* call_mcp returns; the response is classified and the full record is yielded
McpRespond ==
    /\ genPc = "calling"
    /\ \E reply \in McpReplies :
          LET tool   == api_tools[idx]
              output == call_mcp(Get(tool, "name", JNull), gpt_output, reply) IN
          /\ calls' = [calls EXCEPT ![Len(calls)].reply = reply]
          /\ IF output.t = "exc"
             THEN Raise /\ UNCHANGED <<idx, result, yielded>>
             ELSE Yield(FullRecord(tool, gpt_output, output,
                                   classify_response_status(output)))
    /\ inFlight' = inFlight - 1
    /\ UNCHANGED <<catalog, consumer, search_query, files, api_tools, gpt_output,
                   received, printed, results, rendered>>
    /\ UNCHANGED <<clsVars, sseVars, cacheVars>>

\* the body of main's for loop on one record
MainBody ==
    /\ consumer = "main" /\ conPc = "body"
    /\ received' = received + 1
    /\ IF "status" \notin DOMAIN result.d
       THEN conPc' = "aborted" /\ UNCHANGED <<printed, genPc, idx>>      \* KeyError
       ELSE /\ printed' = Append(printed, [status |-> result.d["status"],
                                           name |-> result.d["name"]])
            /\ IF result.d["status"] = JStr(<<"error">>)
                    \/ result.d["output"].t = "str"
               THEN conPc' = "asking" /\ Resume
               ELSE conPc' = "aborted" /\ UNCHANGED <<genPc, idx>>       \* TypeError
    /\ UNCHANGED <<catalog, consumer, search_query, files, api_tools, gpt_output,
                   result, yielded, calls, inFlight, results, rendered>>
    /\ UNCHANGED <<clsVars, sseVars, cacheVars>>

\* the body of the dashboard's for loop on one record
DashboardBody ==
    /\ consumer = "dashboard" /\ conPc = "body"
    /\ received' = received + 1
    /\ results' = Append(results, result)
    /\ IF search_query # <<>> /\ result.d["name"].t # "str"
       THEN conPc' = "aborted" /\ UNCHANGED <<rendered, genPc, idx>>     \* AttributeError
       ELSE /\ conPc' = "asking" /\ Resume
            /\ IF /\ search_query # <<>>
                  /\ ~Contains(Lower(result.d["name"].s), Lower(search_query))
                  /\ ~Contains(Lower(Get(result, "type", JStr(<<>>)).s),
                               Lower(search_query))
               THEN UNCHANGED rendered
               ELSE rendered' = rendered + 1
    /\ UNCHANGED <<catalog, consumer, search_query, files, api_tools, gpt_output,
                   result, yielded, calls, inFlight, printed>>
    /\ UNCHANGED <<clsVars, sseVars, cacheVars>>

Next == LoadCatalog \/ LoopStep \/ McpRespond \/ MainBody \/ DashboardBody
Init == InitRun
Spec == Init /\ [][Next]_vars

(***************************************************************************)
(* What the claims about a test run speak of.                              *)
(***************************************************************************)
ApiText == <<"a", "p", "i">>
\* the filter with surrounding whitespace trimmed before the case is folded
ExcludedTrimmed(cat) ==
    \/ cat.t = "str" /\ Lower(Strip(cat.s)) \in excluded
    \/ cat.t = "list" /\ \E i \in 1..Len(cat.l) :
                            cat.l[i].t = "str" /\ Lower(Strip(cat.l[i].s)) \in excluded
Kept(e) ==
    /\ Get(e, "toolType", Absent).t = "str"
    /\ Lower(Strip(Get(e, "toolType", Absent).s)) = ApiText
    /\ ~ExcludedTrimmed(Get(e, "category", Absent))
\* the filter as the claim words it: equal up to case, nothing trimmed
ExcludedUpToCase(cat) ==
    \/ cat.t = "str" /\ Lower(cat.s) \in excluded
    \/ cat.t = "list" /\ \E i \in 1..Len(cat.l) :
                            cat.l[i].t = "str" /\ Lower(cat.l[i].s) \in excluded
KeptUpToCase(e) ==
    /\ Get(e, "toolType", Absent).t = "str"
    /\ Lower(Get(e, "toolType", Absent).s) = ApiText
    /\ ~ExcludedUpToCase(Get(e, "category", Absent))
FilteredCatalog == SelectSeq(catalog, Kept)
\* the entries of api_tools without the two keys the loader adds
AsInCatalog(tools) ==
    [k \in 1..Len(tools) |->
        JDict([key \in DOMAIN tools[k].d \ {"_properties", "_example"} |->
                  tools[k].d[key]])]
Loaded   == genPc # "unstarted" /\ ~(genPc = "raised" /\ idx = 0)
Finished == genPc \in {"exhausted", "raised"}
NameOf(e) == Get(e, "name", JNull)
IsFull(rec)  == "status" \in DOMAIN rec.d
IsEarly(rec, message) ==
    DOMAIN rec.d = {"name", "error"} /\ StartsWith(rec.d["error"].s, message)
NameMissing(e) == "name" \notin DOMAIN e.d
SchemaMalformed(e) ==
    LET schema == Get(e, "inputSchema", Absent) IN
    \/ schema.t \notin {"absent", "null", "dict"}
    \/ schema.t = "dict" /\ "properties" \in DOMAIN schema.d
                         /\ schema.d["properties"].t # "dict"
HasExample(e) ==
    Get(e, "exampleInput", Absent).t = "dict" /\ DOMAIN e.d["exampleInput"].d # {}
Invoked(i) == \E k \in 1..Len(calls) : calls[k].i = i
\* a transport fault, or a body or stream that does not decode
Faulty(reply) ==
    \/ reply.kind \in {"fault", "cut"}
    \/ reply.kind = "sse" /\ JsonLoads(full_data(reply.lines, Len(reply.lines))).t = "exc"
    \/ reply.kind = "json" /\ JsonLoads(reply.body).t = "exc"

\* C1: when the generator has ended, the yielded sequence holds exactly one
\* record per entry of the filtered catalog, in catalog order, the i-th with
\* the name of the i-th filtered entry: none dropped, none yielded twice.
C1_OnePerTool ==
    Finished =>
        /\ Len(yielded) = Len(FilteredCatalog)
        /\ \A p \in 1..Len(yielded) :
              /\ yielded[p].i = p
              /\ p <= Len(FilteredCatalog)
              /\ yielded[p].rec.d["name"] = NameOf(FilteredCatalog[p])

\* C3: every invocation that meets a transport fault or a body or stream that
\* does not decode ends in a full record for that tool whose output is a
\* failure record with an error field and whose status is unknown, and the
\* generator stays ready to go on with the next tool.
C3_TransportFault ==
    \A k \in 1..Len(calls) :
        Faulty(calls[k].reply) =>
            /\ \E p \in 1..Len(yielded) :
                  /\ yielded[p].i = calls[k].i
                  /\ IsFull(yielded[p].rec)
                  /\ yielded[p].rec.d["status"] = JStr(<<"unknown">>)
                  /\ yielded[p].rec.d["output"].t = "dict"
                  /\ "error" \in DOMAIN yielded[p].rec.d["output"].d
            /\ idx > calls[k].i \/ genPc = "suspended"
\* a refused connection on the first tool, then a record for the second
C3_Witness ==
    /\ Len(calls) >= 1 /\ calls[1].reply.kind = "fault"
    /\ Len(yielded) = 2
    /\ IsFull(yielded[1].rec)
    /\ yielded[1].rec.d["status"] = JStr(<<"unknown">>)
    /\ yielded[2].i = 2

\* C5: main prints one status line per record the generator yields, whatever
\* the record is, and never aborts on a record.
C5_MainPrintsAll ==
    consumer = "main" =>
        /\ conPc = "aborted" => genPc = "raised"
        /\ conPc \in {"asking", "done"} => Len(printed) = Len(yielded)

\* C6: a catalog entry whose parameter schema is no well-formed mapping, or
\* whose name is missing, never aborts the run: it gets the minimal record
\* {name, error: "Invalid parameter properties"} and no invocation.
C6_EntryFault ==
    /\ genPc # "raised"
    /\ \A p \in 1..Len(yielded) :
          LET e == FilteredCatalog[yielded[p].i] IN
          (NameMissing(e) \/ SchemaMalformed(e)) =>
              /\ IsEarly(yielded[p].rec, <<"Invalid parameter properties">>)
              /\ ~Invoked(yielded[p].i)

\* C7: a tool with a non-empty example mapping is invoked with it, the cache
\* and the generative model left alone; for any other tool the run never
\* aborts while its arguments are obtained, and when none are obtained the
\* tool gets {name, error: "Failed to generate sample input"} and no invocation.
C7_Arguments ==
    /\ ~(genPc = "raised" /\ idx >= 1)
    /\ \A k \in 1..Len(calls) :
          HasExample(api_tools[calls[k].i]) =>
              calls[k].arguments = api_tools[calls[k].i].d["exampleInput"]
    /\ (\A p \in 1..Len(api_tools) : HasExample(api_tools[p])) => files = EmptyMap
    /\ \A p \in 1..Len(yielded) :
          LET e == api_tools[yielded[p].i] IN
          (~Invoked(yielded[p].i) /\ ~SchemaMalformed(e)) =>
              /\ ~HasExample(e)
              /\ IsEarly(yielded[p].rec, <<"Failed to generate sample input">>)

RecordsFollow(filtered) ==
    \A p \in 1..Len(yielded) :
        /\ yielded[p].i \in 1..Len(filtered)
        /\ yielded[p].rec.d["name"] = NameOf(filtered[yielded[p].i])
        /\ p > 1 => yielded[p - 1].i < yielded[p].i
C10_SequentialLazy ==
    /\ inFlight \in {0, 1}
    /\ inFlight = 1 <=> genPc = "calling"
    /\ \A k \in 2..Len(calls) : calls[k - 1].i < calls[k].i
    /\ genPc = "calling" =>
          /\ conPc = "asking"
          /\ received = Len(yielded)
          /\ \A k \in 1..(Len(calls) - 1) : calls[k].reply # Pending
\* the second invocation is in flight after the first record was consumed
C10_Witness ==
    genPc = "calling" /\ Len(calls) = 2 /\ received = 1 /\ Len(yielded) = 1

=============================================================================
